---- MODULE Spec2Model ----
(***************************************************************************)
(* State-machine model of src/conversation/v1.js: the ConversationV1       *)
(* service facade (constructor and the 22 endpoint methods) together with  *)
(* the request dispatcher (lib/requestwrapper) and the base service        *)
(* (lib/base_service) the facade delegates to.                             *)
(***************************************************************************)
EXTENDS Integers, Sequences, FiniteSets, TLC

VARIABLES service, ctorError, call, parked

vars == <<service, ctorError, call, parked>>

(***************************************************************************)
(* Bounds of the model.                                                    *)
(***************************************************************************)
\* how many optional body keys and optional query keys (the first ones of
\* an operation's lists) the enumerated parameter mappings draw from
MaxOptional == 1
\* how many of the sample texts the enumerated parameter values draw from
MaxTexts == 2

(***************************************************************************)
(* JavaScript values.                                                      *)
(***************************************************************************)
Undefined == [t |-> "undefined", s |-> <<>>]

Str(chars) == [t |-> "string", s |-> chars]

IsDefined(v) == v.t # "undefined"

\* the empty object {}
EmptyObject == [k \in {} |-> Undefined]

\* the sample texts: a plain one, one with a blank, one with braces, ...
Texts ==
  << <<"h", "i", " ", "t">>, <<"{", "x", "}">>, <<"w", "s", "1">>,
     <<"a", "/", "b">>, <<"%">> >>

\* ConversationV1.VERSION_DATE_* (src/conversation/v1.js:48,77,126)
VERSION_DATE_2016_07_11 == Str(<<"2016-07-11">>)

VERSION_DATE_2016_09_20 == Str(<<"2016-09-20">>)

VERSION_DATE_2017_02_03 == Str(<<"2017-02-03">>)

VersionDates ==
  {VERSION_DATE_2016_07_11, VERSION_DATE_2016_09_20, VERSION_DATE_2017_02_03}

\* ConversationV1.URL
URL == <<"https://gateway.watsonplatform.net/conversation/api">>

Range(seq) == {seq[i] : i \in DOMAIN seq}

(***************************************************************************)
(* URL templates: a sequence of literal chunks and {placeholder} tokens.   *)
(***************************************************************************)
Lit(s) == [kind |-> "lit", s |-> <<s>>]

Ph(name) == [kind |-> "ph", s |-> <<name>>]

(***************************************************************************)
(* The endpoint methods' literals: url, method, json, the key lists handed *)
(* to pick() for body, qs and path (<<>> with the option absent, see       *)
(* `has`), requiredParams, and the JSDoc's mandatory and optional          *)
(* params.* entries.                                                       *)
(***************************************************************************)
WorkspaceFields ==
  <<"name", "language", "entities", "intents", "dialog_nodes", "metadata",
    "description", "counterexamples">>

PageFields == <<"page_limit", "include_count", "sort", "cursor">>

Decl(url, method, json, has, body, qs, path, requiredParams, docRequired, docOptional) ==
  [url |-> url, method |-> method, json |-> json, has |-> has, body |-> body,
   qs |-> qs, path |-> path, requiredParams |-> requiredParams,
   docRequired |-> docRequired, docOptional |-> docOptional]

Declarations ==
  [message |->
     Decl(<<Lit("/v1/workspaces/"), Ph("workspace_id"), Lit("/message")>>,
          "POST", TRUE, {"body", "path"},
          <<"input", "context", "alternate_intents", "output", "entities", "intents">>,
          <<>>, <<"workspace_id">>, <<"workspace_id">>,
          {"workspace_id"},
          {"input", "context", "alternate_intents", "output", "entities", "intents"}),
   listWorkspaces |->
     Decl(<<Lit("/v1/workspaces")>>, "GET", FALSE, {"qs"},
          <<>>, PageFields, <<>>, <<>>,
          {}, Range(PageFields)),
   createWorkspace |->
     Decl(<<Lit("/v1/workspaces")>>, "POST", TRUE, {"body"},
          WorkspaceFields, <<>>, <<>>, <<>>,
          {}, Range(WorkspaceFields)),
   getWorkspace |->
     Decl(<<Lit("/v1/workspaces/"), Ph("workspace_id")>>, "GET", TRUE, {"qs", "path"},
          <<>>, <<"export">>, <<"workspace_id">>, <<"workspace_id">>,
          {"workspace_id"}, {"export"}),
   deleteWorkspace |->
     Decl(<<Lit("/v1/workspaces/"), Ph("workspace_id")>>, "DELETE", TRUE, {"path"},
          <<>>, <<>>, <<"workspace_id">>, <<"workspace_id">>,
          {"workspace_id"}, {}),
   updateWorkspace |->
     Decl(<<Lit("/v1/workspaces/"), Ph("workspace_id")>>, "POST", TRUE, {"body", "path"},
          WorkspaceFields, <<>>, <<"workspace_id">>, <<"workspace_id">>,
          {"workspace_id"}, Range(WorkspaceFields)),
   workspaceStatus |->
     Decl(<<Lit("/v1/workspaces/"), Ph("workspace_id"), Lit("/status")>>,
          "GET", TRUE, {"path"},
          <<>>, <<>>, <<"workspace_id">>, <<"workspace_id">>,
          {"workspace_id"}, {}),
   createIntent |->
     Decl(<<Lit("/v1/workspaces/"), Ph("workspace_id"), Lit("/intents")>>,
          "POST", TRUE, {"path", "body"},
          <<"intent", "description", "examples">>, <<>>, <<"workspace_id">>,
          <<"workspace_id", "intent">>,
          {"workspace_id"}, {"intent", "description", "examples"}),
   getIntents |->
     Decl(<<Lit("/v1/workspaces/"), Ph("workspace_id"), Lit("/intents")>>,
          "GET", TRUE, {"path", "qs"},
          <<>>, <<"export">> \o PageFields, <<"workspace_id">>, <<"workspace_id">>,
          {"workspace_id"}, {"export"} \cup Range(PageFields)),
   getIntent |->
     Decl(<<Lit("/v1/workspaces/"), Ph("workspace_id"), Lit("/intents/"), Ph("intent")>>,
          "GET", TRUE, {"path", "qs"},
          <<>>, <<"export">>, <<"workspace_id", "intent">>, <<"workspace_id", "intent">>,
          {"workspace_id", "intent"}, {"export"}),
   updateIntent |->
     Decl(<<Lit("/v1/workspaces/"), Ph("workspace_id"), Lit("/intents/"), Ph("old_intent")>>,
          "POST", TRUE, {"path", "body"},
          <<"intent", "description", "examples">>, <<>>, <<"workspace_id", "old_intent">>,
          <<"workspace_id", "old_intent", "intent">>,
          {"workspace_id", "old_intent", "intent", "description", "examples"}, {}),
   deleteIntent |->
     Decl(<<Lit("/v1/workspaces/"), Ph("workspace_id"), Lit("/intents/"), Ph("intent")>>,
          "DELETE", TRUE, {"path"},
          <<>>, <<>>, <<"workspace_id", "intent">>, <<"workspace_id", "intent">>,
          {"workspace_id", "intent"}, {}),
   getExamples |->
     Decl(<<Lit("/v1/workspaces/"), Ph("workspace_id"), Lit("/intents/"), Ph("intent"),
            Lit("/examples")>>,
          "GET", TRUE, {"path", "qs"},
          <<>>, PageFields, <<"workspace_id", "intent">>, <<"workspace_id", "intent">>,
          {"workspace_id", "intent"}, Range(PageFields)),
   createExample |->
     Decl(<<Lit("/v1/workspaces/"), Ph("workspace_id"), Lit("/intents/"), Ph("intent"),
            Lit("/examples")>>,
          "POST", TRUE, {"path", "body"},
          <<"text">>, <<>>, <<"workspace_id", "intent">>, <<"workspace_id", "intent">>,
          {"workspace_id", "intent", "text"}, {}),
   deleteExample |->
     Decl(<<Lit("/v1/workspaces/"), Ph("workspace_id"), Lit("/intents/"), Ph("intent"),
            Lit("/examples/"), Ph("text")>>,
          "DELETE", TRUE, {"path"},
          <<>>, <<>>, <<"workspace_id", "intent", "text">>,
          <<"workspace_id", "intent", "text">>,
          {"workspace_id", "intent", "text"}, {}),
   getExample |->
     Decl(<<Lit("/v1/workspaces/"), Ph("workspace_id"), Lit("/intents/"), Ph("intent"),
            Lit("/examples/"), Ph("text")>>,
          "GET", TRUE, {"path"},
          <<>>, <<>>, <<"workspace_id", "intent", "text">>,
          <<"workspace_id", "intent", "text">>,
          {"workspace_id", "intent", "text"}, {}),
   updateExample |->
     Decl(<<Lit("/v1/workspaces/"), Ph("workspace_id"), Lit("/intents/"), Ph("intent"),
            Lit("/examples/"), Ph("old_text")>>,
          "POST", TRUE, {"path", "body"},
          <<"text">>, <<>>, <<"workspace_id", "intent", "old_text">>,
          <<"workspace_id", "intent", "old_text", "text">>,
          {"workspace_id", "intent", "text", "example"}, {}),
   getCounterExamples |->
     Decl(<<Lit("/v1/workspaces/"), Ph("workspace_id"), Lit("/counterexamples")>>,
          "GET", TRUE, {"path", "qs"},
          <<>>, PageFields, <<"workspace_id">>, <<"workspace_id">>,
          {"workspace_id"}, Range(PageFields)),
   createCounterExample |->
     Decl(<<Lit("/v1/workspaces/"), Ph("workspace_id"), Lit("/counterexamples")>>,
          "POST", TRUE, {"path", "body"},
          <<"text">>, <<>>, <<"workspace_id">>, <<"workspace_id", "text">>,
          {"workspace_id", "text"}, {}),
   deleteCounterExample |->
     Decl(<<Lit("/v1/workspaces/"), Ph("workspace_id"), Lit("/counterexamples/"), Ph("text")>>,
          "DELETE", TRUE, {"path"},
          <<>>, <<>>, <<"workspace_id", "text">>, <<"workspace_id", "text">>,
          {"workspace_id", "text"}, {}),
   getCounterExample |->
     Decl(<<Lit("/v1/workspaces/"), Ph("workspace_id"), Lit("/counterexamples/"), Ph("text")>>,
          "GET", TRUE, {"path"},
          <<>>, <<>>, <<"workspace_id", "text">>, <<"workspace_id", "text">>,
          {"workspace_id", "text"}, {}),
   updateCounterExample |->
     Decl(<<Lit("/v1/workspaces/"), Ph("workspace_id"), Lit("/counterexamples/"),
            Ph("old_text")>>,
          "POST", TRUE, {"path", "body"},
          <<"text">>, <<>>, <<"workspace_id", "old_text">>,
          <<"workspace_id", "old_text", "text">>,
          {"workspace_id", "old_text", "text"}, {})]

Operations == DOMAIN Declarations


\* mutant: the methods pass no requiredParams to the dispatcher
DeclarationNoRequired(op) == [Declarations[op] EXCEPT !.requiredParams = <<>>]

\* mutant: deleteExample does not require the value of its {text} placeholder
DeclarationPlaceholderOptional(op) ==
  IF op = "deleteExample"
    THEN [Declarations[op] EXCEPT !.requiredParams = <<"workspace_id", "intent">>]
    ELSE Declarations[op]

\* mutant: createWorkspace requires a name
DeclarationCreateWorkspaceRequiresName(op) ==
  IF op = "createWorkspace"
    THEN [Declarations[op] EXCEPT !.requiredParams = <<"name">>]
    ELSE Declarations[op]

\* mutant: createCounterExample requires text but picks no body field
DeclarationRequiredNotPicked(op) ==
  IF op = "createCounterExample"
    THEN [Declarations[op] EXCEPT !.body = <<>>]
    ELSE Declarations[op]

\* the literals of the endpoint method named op
Declaration(op) == Declarations[op]

(***************************************************************************)
(* Arguments of a call: params is null/undefined, an object or a function; *)
(* callback is undefined or a function (named, to tell who is called).     *)
(***************************************************************************)
NullArg == [t |-> "null", m |-> EmptyObject, fn |-> "undefined"]

Obj(m) == [t |-> "object", m |-> m, fn |-> "undefined"]

\* a function object: its own properties visible to the `in` operator
FnArg(f) == [t |-> "function", m |-> [name |-> Str(<<f>>), length |-> Str(<<"2">>)], fn |-> f]

NoCallback == "undefined"

IsFunction(cb) == cb # NoCallback

\* object.pick: only the keys of the list that are `in` the object; {} for
\* anything that is neither an object nor a function
pick(obj, keys) ==
  IF obj.t \notin {"object", "function"}
    THEN EmptyObject
    ELSE [k \in Range(keys) \cap DOMAIN obj.m |-> obj.m[k]]

\* params = params || {}
OrEmpty(params) == IF params.t = "null" THEN Obj(EmptyObject) ELSE params

\* listWorkspaces: if (typeof params === 'function' && !callback)
\*                   { callback = params; params = null; }
NormalizedParams(op, params, callback) ==
  IF op = "listWorkspaces"
    THEN IF params.t = "function" /\ ~IsFunction(callback) THEN NullArg ELSE params
    ELSE OrEmpty(params)

\* mutant: the methods call the dispatcher without the callback
NormalizedCallbackDropped(op, params, callback) == NoCallback

\* mutant: listWorkspaces does not take a function first argument as callback
NormalizedCallbackSecondOnly(op, params, callback) == callback

NormalizedCallback(op, params, callback) ==
  IF op = "listWorkspaces" /\ params.t = "function" /\ ~IsFunction(callback)
    THEN params.fn
    ELSE callback

\* mutant: the whole params object is handed over as body, qs and path
OptionsUnfiltered(op, params) ==
  LET d == Declaration(op) IN
  [url |-> d.url, method |-> d.method, json |-> d.json, has |-> d.has,
   body |-> IF "body" \in d.has THEN params.m ELSE EmptyObject,
   qs |-> IF "qs" \in d.has THEN params.m ELSE EmptyObject,
   path |-> IF "path" \in d.has THEN params.m ELSE EmptyObject]

\* parameters.options of the endpoint method op
Options(op, params) ==
  LET d == Declaration(op) IN
  [url |-> d.url, method |-> d.method, json |-> d.json, has |-> d.has,
   body |-> IF "body" \in d.has THEN pick(params, d.body) ELSE EmptyObject,
   qs |-> IF "qs" \in d.has THEN pick(params, d.qs) ELSE EmptyObject,
   path |-> IF "path" \in d.has THEN pick(params, d.path) ELSE EmptyObject]

(***************************************************************************)
(* The request dispatcher.                                                 *)
(***************************************************************************)
NoError == [kind |-> "none", field |-> "", status |-> 0]

MissingRequiredParameter(field) ==
  [kind |-> "MissingRequiredParameter", field |-> field, status |-> 0]

TransportError(status) == [kind |-> "TransportError", field |-> "", status |-> status]

DecodeError == [kind |-> "DecodeError", field |-> "", status |-> 0]

\* b's entries win on a key collision
Merge(a, b) ==
  [k \in DOMAIN a \cup DOMAIN b |-> IF k \in DOMAIN b THEN b[k] ELSE a[k]]

HasValue(data, k) == k \in DOMAIN data /\ IsDefined(data[k])

Min(S) == CHOOSE x \in S : \A y \in S : x <= y

\* the first field of the required list with no defined value among the
\* mappings handed over, "" when there is none
FirstMissing(requiredParams, options) ==
  LET data == Merge(Merge(options.body, options.qs), options.path)
      idx == {i \in DOMAIN requiredParams : ~HasValue(data, requiredParams[i])}
  IN IF idx = {} THEN "" ELSE requiredParams[Min(idx)]

\* percent-encoding of one character (encodeURIComponent)
EncodeChar(c) ==
  CASE c = " " -> <<"%", "2", "0">>
    [] c = "{" -> <<"%", "7", "B">>
    [] c = "}" -> <<"%", "7", "D">>
    [] c = "/" -> <<"%", "2", "F">>
    [] c = "%" -> <<"%", "2", "5">>
    [] OTHER -> <<c>>

RECURSIVE Encode(_)
Encode(chars) ==
  IF chars = <<>> THEN <<>> ELSE EncodeChar(Head(chars)) \o Encode(Tail(chars))

\* the template with each placeholder the path mapping has a value for
\* replaced by that value, percent-encoded
ResolveUrl(url, path) ==
  [i \in DOMAIN url |->
     IF url[i].kind = "ph" /\ url[i].s[1] \in DOMAIN path
       THEN [kind |-> "lit", s |-> Encode(path[url[i].s[1]].s)]
       ELSE url[i]]

\* the outbound request: base URL + resolved path, the query merged with
\* the default query (default entries win), the body when there is one
BuildRequest(options, defaultOptions) ==
  [method |-> options.method,
   url |-> <<[kind |-> "lit", s |-> defaultOptions.url]>> \o ResolveUrl(options.url, options.path),
   qs |-> Merge(options.qs, defaultOptions.qs),
   hasBody |-> "body" \in options.has,
   body |-> options.body]

NoRequest ==
  [method |-> "none", url |-> <<>>, qs |-> EmptyObject, hasBody |-> FALSE,
   body |-> EmptyObject]

Completion(to, err, data) == [to |-> to, err |-> err, data |-> data]

\* completions handed to the callback, when there is one
Deliver(callback, err, data) ==
  IF IsFunction(callback) THEN <<Completion(callback, err, data)>> ELSE <<>>

NoOptions ==
  [url |-> <<>>, method |-> "none", json |-> FALSE, has |-> {}, body |-> EmptyObject,
   qs |-> EmptyObject, path |-> EmptyObject]

NoCall ==
  [op |-> "none", arg1 |-> NullArg, arg2 |-> NoCallback, params |-> NullArg,
   callback |-> NoCallback, options |-> NoOptions, status |-> "none",
   request |-> NoRequest, transportCalls |-> 0, completions |-> <<>>,
   returned |-> NoError]

\* requestFactory(parameters, callback): validate, then build and send
createRequest(op, arg1, arg2, params, options, requiredParams, defaultOptions, callback) ==
  LET missing == FirstMissing(requiredParams, options)
      base == [NoCall EXCEPT !.op = op, !.arg1 = arg1, !.arg2 = arg2,
                             !.params = params, !.callback = callback,
                             !.options = options]
  IN IF missing # ""
       THEN [base EXCEPT !.status = "rejected",
                         !.completions = Deliver(callback, MissingRequiredParameter(missing), "none"),
                         !.returned = IF IsFunction(callback) THEN NoError
                                      ELSE MissingRequiredParameter(missing)]
       ELSE [base EXCEPT !.status = "inflight",
                         !.request = BuildRequest(options, defaultOptions),
                         !.transportCalls = 1]


(***************************************************************************)
(* The service instance and its construction.                              *)
(***************************************************************************)
\* BaseService.call(this, options): this._options is the caller's options
\* over what the credential/config collaborator supplies (base URL, and
\* possibly a version identifier), with an empty default query
BaseService(options, supplied) ==
  [version_date |->
     IF options.t = "object" /\ "version_date" \in DOMAIN options.m
       THEN options.m.version_date
       ELSE supplied,
   qs |-> EmptyObject,
   url |-> URL]

NotConstructed ==
  [constructed |-> FALSE,
   _options |-> [version_date |-> Undefined, qs |-> EmptyObject, url |-> URL]]

\* the value of the expression options.version_date, for an options object
OptionsVersionDate(options) ==
  IF "version_date" \in DOMAIN options.m THEN options.m.version_date ELSE Undefined

\* mutant: the constructor does not check version_date
VersionDateMissingUnchecked(_options) == FALSE

\* typeof this._options.version_date === 'undefined'
VersionDateMissing(_options) == ~IsDefined(_options.version_date)

\* mutant: the constructor leaves the default query without a version
SetQsVersionSkipped(qs, options) == qs

\* this._options.qs.version = options.version_date
SetQsVersion(qs, options) == Merge(qs, [version |-> OptionsVersionDate(options)])

\* new ConversationV1(options)
ConversationV1(options, supplied) ==
  LET _options == BaseService(options, supplied) IN
  /\ ~service.constructed
  /\ call' = call
  /\ parked' = parked
  /\ IF VersionDateMissing(_options)
       THEN /\ ctorError' = "Argument error: version_date was not specified"
            /\ service' = service
       ELSE IF options.t # "object"
         \* options.version_date of an undefined options
         THEN /\ ctorError' = "TypeError"
              /\ service' = service
         ELSE /\ ctorError' = "none"
              /\ service' =
                   [constructed |-> TRUE,
                    _options |-> [_options EXCEPT !.qs = SetQsVersion(_options.qs, options)]]

ConstructorOptions ==
  {NullArg, Obj(EmptyObject)} \cup {Obj([version_date |-> v]) : v \in VersionDates}

Construct ==
  \E options \in ConstructorOptions, supplied \in {Undefined} \cup VersionDates :
    ConversationV1(options, supplied)

(***************************************************************************)
(* The parameter mappings and callbacks the calls are made with.           *)
(***************************************************************************)
FirstN(seq, n) == {seq[i] : i \in {j \in DOMAIN seq : j <= n}}

\* keys no operation allows
ExtraKeys == {"version", "junk"}

CallerVersion == Str(<<"caller-version">>)

SomeKeys(op) ==
  LET d == Declarations[op] IN
  Range(d.path) \cup Range(d.requiredParams) \cup d.docRequired
    \cup FirstN(d.body, MaxOptional) \cup FirstN(d.qs, MaxOptional) \cup ExtraKeys

\* the keys a mapping may hold with the value undefined
UndefinedKeys(op) ==
  LET d == Declarations[op] IN Range(d.path) \cup Range(d.requiredParams)

\* the keys of K valued by the text, "version" by the caller's own version,
\* and the key u (if any) present with the value undefined
Mapping(K, u, text) ==
  [k \in K |-> IF k = u THEN Undefined
               ELSE IF k = "version" THEN CallerVersion ELSE Str(text)]

Mappings(op) ==
  {Mapping(K, u, Texts[i]) :
     K \in SUBSET SomeKeys(op), u \in UndefinedKeys(op) \cup {"-"}, i \in 1..MaxTexts}

ParamsArgs(op) == {Obj(m) : m \in Mappings(op)} \cup {NullArg, FnArg("fn1")}

CallbackArgs == {NoCallback, "fn2"}

(***************************************************************************)
(* The endpoint methods.                                                   *)
(***************************************************************************)
\* mutant: the method keeps the picked query in the service's default query
endpointStoresQuery(op, arg1, arg2) ==
  LET params == NormalizedParams(op, arg1, arg2)
      callback == NormalizedCallback(op, arg1, arg2)
  IN /\ service.constructed
     /\ call.status = "none"
     /\ call' = createRequest(op, arg1, arg2, params, Options(op, params),
                              Declaration(op).requiredParams, service._options, callback)
     /\ service' = [service EXCEPT !._options.qs = Merge(Options(op, params).qs, @)]
     /\ UNCHANGED <<ctorError, parked>>

\* ConversationV1.prototype[op](params, callback)
endpoint(op, arg1, arg2) ==
  LET params == NormalizedParams(op, arg1, arg2)
      callback == NormalizedCallback(op, arg1, arg2)
  IN /\ service.constructed
     /\ call.status = "none"
     /\ call' = createRequest(op, arg1, arg2, params, Options(op, params),
                              Declaration(op).requiredParams, service._options, callback)
     /\ UNCHANGED <<service, ctorError, parked>>

message ==
  \E params \in ParamsArgs("message"), callback \in CallbackArgs :
    endpoint("message", params, callback)

listWorkspaces ==
  \E params \in ParamsArgs("listWorkspaces"), callback \in CallbackArgs :
    endpoint("listWorkspaces", params, callback)

createWorkspace ==
  \E params \in ParamsArgs("createWorkspace"), callback \in CallbackArgs :
    endpoint("createWorkspace", params, callback)

getWorkspace ==
  \E params \in ParamsArgs("getWorkspace"), callback \in CallbackArgs :
    endpoint("getWorkspace", params, callback)

deleteWorkspace ==
  \E params \in ParamsArgs("deleteWorkspace"), callback \in CallbackArgs :
    endpoint("deleteWorkspace", params, callback)

updateWorkspace ==
  \E params \in ParamsArgs("updateWorkspace"), callback \in CallbackArgs :
    endpoint("updateWorkspace", params, callback)

workspaceStatus ==
  \E params \in ParamsArgs("workspaceStatus"), callback \in CallbackArgs :
    endpoint("workspaceStatus", params, callback)

createIntent ==
  \E params \in ParamsArgs("createIntent"), callback \in CallbackArgs :
    endpoint("createIntent", params, callback)

getIntents ==
  \E params \in ParamsArgs("getIntents"), callback \in CallbackArgs :
    endpoint("getIntents", params, callback)

getIntent ==
  \E params \in ParamsArgs("getIntent"), callback \in CallbackArgs :
    endpoint("getIntent", params, callback)

updateIntent ==
  \E params \in ParamsArgs("updateIntent"), callback \in CallbackArgs :
    endpoint("updateIntent", params, callback)

deleteIntent ==
  \E params \in ParamsArgs("deleteIntent"), callback \in CallbackArgs :
    endpoint("deleteIntent", params, callback)

getExamples ==
  \E params \in ParamsArgs("getExamples"), callback \in CallbackArgs :
    endpoint("getExamples", params, callback)

createExample ==
  \E params \in ParamsArgs("createExample"), callback \in CallbackArgs :
    endpoint("createExample", params, callback)

deleteExample ==
  \E params \in ParamsArgs("deleteExample"), callback \in CallbackArgs :
    endpoint("deleteExample", params, callback)

getExample ==
  \E params \in ParamsArgs("getExample"), callback \in CallbackArgs :
    endpoint("getExample", params, callback)

updateExample ==
  \E params \in ParamsArgs("updateExample"), callback \in CallbackArgs :
    endpoint("updateExample", params, callback)

getCounterExamples ==
  \E params \in ParamsArgs("getCounterExamples"), callback \in CallbackArgs :
    endpoint("getCounterExamples", params, callback)

createCounterExample ==
  \E params \in ParamsArgs("createCounterExample"), callback \in CallbackArgs :
    endpoint("createCounterExample", params, callback)

deleteCounterExample ==
  \E params \in ParamsArgs("deleteCounterExample"), callback \in CallbackArgs :
    endpoint("deleteCounterExample", params, callback)

getCounterExample ==
  \E params \in ParamsArgs("getCounterExample"), callback \in CallbackArgs :
    endpoint("getCounterExample", params, callback)

updateCounterExample ==
  \E params \in ParamsArgs("updateCounterExample"), callback \in CallbackArgs :
    endpoint("updateCounterExample", params, callback)

(***************************************************************************)
(* The transport collaborator answering the request in flight.             *)
(***************************************************************************)
Complete(err, data) ==
  /\ call.status = "inflight"
  /\ call' = [call EXCEPT !.status = "done",
                          !.completions = @ \o Deliver(call.callback, err, data)]
  /\ UNCHANGED <<service, ctorError, parked>>

\* a 2xx response with a well-formed body
TransportSuccess ==
  Complete(NoError, IF call.options.json THEN "decoded" ELSE "raw")

\* a non-2xx response
TransportHttpFailure == \E status \in {401, 500} : Complete(TransportError(status), "none")

\* no response at all
TransportNetworkError == Complete(TransportError(0), "none")

\* a 2xx response whose body is not valid structured data
TransportMalformedBody ==
  IF call.options.json THEN Complete(DecodeError, "none") ELSE Complete(NoError, "raw")

\* the caller is done with a finished call and may make the next one
Forget ==
  /\ call.status \in {"rejected", "done"}
  /\ call' = NoCall
  /\ UNCHANGED <<service, ctorError, parked>>

Init ==
  /\ service = NotConstructed
  /\ ctorError = "none"
  /\ call = NoCall
  /\ parked = NoCall

Next ==
  \/ Construct
  \/ message
  \/ listWorkspaces
  \/ createWorkspace
  \/ getWorkspace
  \/ deleteWorkspace
  \/ updateWorkspace
  \/ workspaceStatus
  \/ createIntent
  \/ getIntents
  \/ getIntent
  \/ updateIntent
  \/ deleteIntent
  \/ getExamples
  \/ createExample
  \/ deleteExample
  \/ getExample
  \/ updateExample
  \/ getCounterExamples
  \/ createCounterExample
  \/ deleteCounterExample
  \/ getCounterExample
  \/ updateCounterExample
  \/ TransportSuccess
  \/ TransportHttpFailure
  \/ TransportNetworkError
  \/ TransportMalformedBody
  \/ Forget

Spec == Init /\ [][Next]_vars

(***************************************************************************)
(* Overlapping calls: a method returns as soon as its request is handed to *)
(* the transport, so the caller may make the next call while the request   *)
(* is still in flight.                                                     *)
(***************************************************************************)
\* the caller goes on while the request of its last call is in flight
Park ==
  /\ call.status = "inflight"
  /\ parked.status = "none"
  /\ parked' = call
  /\ call' = NoCall
  /\ UNCHANGED <<service, ctorError>>

\* the transport answers the earlier request
ParkedAnswered ==
  /\ parked.status = "inflight"
  /\ parked' = NoCall
  /\ UNCHANGED <<service, ctorError, call>>

\* a service constructed with {version_date: VERSION_DATE_2017_02_03}
InitConcurrent ==
  /\ service = [constructed |-> TRUE,
                _options |-> [version_date |-> VERSION_DATE_2017_02_03,
                              qs |-> [version |-> VERSION_DATE_2017_02_03],
                              url |-> URL]]
  /\ ctorError = "none"
  /\ call = NoCall
  /\ parked = NoCall

NextConcurrent ==
  \/ message
  \/ listWorkspaces
  \/ TransportSuccess
  \/ TransportHttpFailure
  \/ TransportNetworkError
  \/ TransportMalformedBody
  \/ Forget
  \/ Park
  \/ ParkedAnswered

SpecConcurrent == InitConcurrent /\ [][NextConcurrent]_vars

(***************************************************************************)
(* Properties.                                                             *)
(***************************************************************************)
Called == call.op # "none"

Dispatched == call.status \in {"inflight", "done"}

\* the error the call ended with: the one handed to the callback, or, with
\* no callback, the one handed back to the caller
ErrorOf(c) == IF c.completions # <<>> THEN c.completions[1].err ELSE c.returned

\* the required fields the caller's mapping has no defined value for
MissingRequired(c) ==
  {r \in Range(Declarations[c.op].requiredParams) : ~HasValue(c.arg1.m, r)}

Allowed(op, position) ==
  CASE position = "body" -> Range(Declarations[op].body)
    [] position = "qs" -> Range(Declarations[op].qs)
    [] position = "path" -> Range(Declarations[op].path)

Placeholders(url) == {url[i].s[1] : i \in {j \in DOMAIN url : url[j].kind = "ph"}}

\* C1: a call whose parameter mapping lacks (or holds undefined for) a
\* required field of its operation ends with a MissingRequiredParameter
\* error naming a missing field (the missing one, when there is just one),
\* and the transport is never invoked for it; getIntent with only
\* workspace_id fails naming intent and sends nothing.
C1_MissingRequiredRejected ==
  Called /\ MissingRequired(call) # {} =>
    /\ call.status = "rejected"
    /\ call.transportCalls = 0
    /\ call.request = NoRequest
    /\ ErrorOf(call).kind = "MissingRequiredParameter"
    /\ ErrorOf(call).field \in MissingRequired(call)
    /\ IsFunction(call.callback) => Len(call.completions) = 1
    /\ (call.op = "getIntent" /\ HasValue(call.arg1.m, "workspace_id")
          /\ "intent" \notin DOMAIN call.arg1.m) => ErrorOf(call).field = "intent"

C1_Witness ==
  /\ call.op = "getIntent"
  /\ DOMAIN call.arg1.m = {"workspace_id"}
  /\ HasValue(call.arg1.m, "workspace_id")
  /\ call.status = "rejected"
  /\ ErrorOf(call) = MissingRequiredParameter("intent")
  /\ call.transportCalls = 0

\* C2: the body, qs and path mappings handed to the dispatcher hold only
\* keys of the operation's list for that position, each with the caller's
\* value, and the outbound request's body and query hold no other key (the
\* query besides the service's own default entries).
C2_OnlyAllowedKeys ==
  Called =>
    /\ \A position \in {"body", "qs", "path"} :
         /\ DOMAIN call.options[position] \subseteq Allowed(call.op, position)
         /\ \A k \in DOMAIN call.options[position] :
              k \in DOMAIN call.arg1.m /\ call.options[position][k] = call.arg1.m[k]
    /\ Dispatched =>
         /\ DOMAIN call.request.body \subseteq Allowed(call.op, "body")
         /\ \A k \in DOMAIN call.request.qs :
              \/ k \in Allowed(call.op, "qs") /\ call.request.qs[k] = call.arg1.m[k]
              \/ /\ k \in DOMAIN service._options.qs
                 /\ call.request.qs[k] = service._options.qs[k]

C2_Witness ==
  /\ call.op = "updateWorkspace"
  /\ {"workspace_id", "name", "junk", "version"} \subseteq DOMAIN call.arg1.m
  /\ call.status = "inflight"
  /\ DOMAIN call.request.body = {"name"}
  /\ DOMAIN call.request.qs = {"version"}
  /\ call.request.body.name = call.arg1.m.name

\* C3: the query of every dispatched request holds the 'version' entry of
\* the service's default query, with the default's value and never the
\* value the caller gave under the same name, whatever else the caller's
\* query parameters are.
C3_DefaultVersionKept ==
  Dispatched =>
    /\ service.constructed
    /\ DOMAIN service._options.qs = {"version"}
    /\ \A k \in DOMAIN service._options.qs :
         /\ k \in DOMAIN call.request.qs
         /\ call.request.qs[k] = service._options.qs[k]
         /\ call.request.qs[k] # CallerVersion
         /\ k \notin DOMAIN call.options.qs

C3_Witness ==
  /\ call.op = "getIntents"
  /\ call.status = "inflight"
  /\ "version" \in DOMAIN call.arg1.m
  /\ call.arg1.m.version = CallerVersion
  /\ "export" \in DOMAIN call.request.qs
  /\ call.request.qs.version = VERSION_DATE_2017_02_03

Chars(url) == UNION {Range(url[i].s) : i \in DOMAIN url}

\* C4: every placeholder of an operation's URL template is in its path list
\* and in its required list; a dispatched request's URL holds no
\* placeholder and no brace; a call whose mapping has no value for a
\* placeholder ends with the missing-required-parameter error.
C4_PlaceholdersResolved ==
  /\ \A op \in Operations :
       Placeholders(Declaration(op).url)
         \subseteq Range(Declaration(op).path) \cap Range(Declaration(op).requiredParams)
  /\ Dispatched =>
       /\ Placeholders(call.request.url) = {}
       /\ Chars(call.request.url) \cap {"{", "}"} = {}
       /\ \A ph \in Placeholders(call.options.url) : HasValue(call.options.path, ph)
  /\ (Called /\ \E ph \in Placeholders(Declarations[call.op].url) : ~HasValue(call.arg1.m, ph)) =>
       /\ call.status = "rejected"
       /\ ErrorOf(call).kind = "MissingRequiredParameter"

C4_Witness ==
  /\ call.op = "deleteExample"
  /\ call.status = "inflight"
  /\ call.arg1.m.text = Str(<<"{", "x", "}">>)
  /\ call.request.url[7] = [kind |-> "lit", s |-> <<"%", "7", "B", "x", "%", "7", "D">>]

\* C5: no service instance exists whose configuration lacks version_date,
\* and no operation is ever called on one: construction without it ends
\* with an error and no instance.
C5_NoServiceWithoutVersion ==
  /\ service.constructed => IsDefined(service._options.version_date)
  /\ ctorError # "none" => ~service.constructed
  /\ Called => service.constructed /\ IsDefined(service._options.version_date)

C5_Witness ==
  /\ ctorError = "Argument error: version_date was not specified"
  /\ ~service.constructed
  /\ call = NoCall

\* the function the caller passed as completion callback: the second
\* argument, or listWorkspaces' only argument
CallerCallback(c) ==
  IF IsFunction(c.arg2) THEN c.arg2
  ELSE IF c.op = "listWorkspaces" /\ c.arg1.t = "function" THEN c.arg1.fn
  ELSE NoCallback

\* an error or a payload, not both and not neither
OneOutcome(completion) == (completion.err.kind # "none") # (completion.data # "none")

\* C6: a call made with a completion callback has handed that callback
\* nothing while its request is in flight and exactly one completion once
\* it is over (rejected by validation, or answered by the transport with a
\* success, an HTTP failure or a network error): an error or a payload,
\* never both; the transport is invoked at most once per call.
C6_ExactlyOneCompletion ==
  Called /\ IsFunction(CallerCallback(call)) =>
    /\ call.transportCalls <= 1
    /\ call.status = "inflight" => call.completions = <<>> /\ call.transportCalls = 1
    /\ call.status \in {"rejected", "done"} =>
         /\ Len(call.completions) = 1
         /\ call.completions[1].to = CallerCallback(call)
         /\ OneOutcome(call.completions[1])
    /\ call.status = "rejected" => call.transportCalls = 0

C6_Witness ==
  /\ call.op = "createWorkspace"
  /\ call.arg2 = "fn2"
  /\ call.status = "done"
  /\ call.completions = <<Completion("fn2", TransportError(401), "none")>>
  /\ call.transportCalls = 1

\* C7: a call with null or absent parameters hands the dispatcher empty
\* body, qs and path mappings; it is rejected only with the
\* missing-required-parameter error, given to the callback when there is
\* one, and only by an operation with a required field: listWorkspaces and
\* createWorkspace are dispatched.
C7_NullParamsAreEmpty ==
  Called /\ call.arg1 = NullArg =>
    /\ call.options.body = EmptyObject
    /\ call.options.qs = EmptyObject
    /\ call.options.path = EmptyObject
    /\ call.status = "rejected" =>
         /\ ErrorOf(call).kind = "MissingRequiredParameter"
         /\ ErrorOf(call).field \in Range(Declarations[call.op].requiredParams)
         /\ IsFunction(call.arg2) => Len(call.completions) = 1
    /\ call.op \in {"listWorkspaces", "createWorkspace"} =>
         /\ Dispatched
         /\ call.request.body = EmptyObject
         /\ DOMAIN call.request.qs = {"version"}

C7_Witness ==
  /\ call.arg1 = NullArg
  /\ call.arg2 = "fn2"
  /\ \/ call.op = "listWorkspaces" /\ call.status = "done"
           /\ ErrorOf(call) = NoError
     \/ call.op = "getWorkspace" /\ call.status = "rejected"
           /\ ErrorOf(call) = MissingRequiredParameter("workspace_id")

\* C8 (as claimed): a call that omits a parameter the operation's
\* documentation lists as mandatory is rejected and sends no request.
C8_DocumentedMandatoryEnforced ==
  (Called /\ \E k \in Declarations[call.op].docRequired : ~HasValue(call.arg1.m, k)) =>
    /\ call.status = "rejected"
    /\ call.transportCalls = 0

\* C9 (as claimed): a call supplying just the parameters the operation's
\* documentation lists as mandatory passes validation and is dispatched.
C9_DocumentedOptionalMayBeOmitted ==
  (/\ Called
   /\ call.arg1.t = "object"
   /\ DOMAIN call.arg1.m = Declarations[call.op].docRequired
   /\ \A k \in DOMAIN call.arg1.m : IsDefined(call.arg1.m[k])) =>
    Dispatched

\* a call with a function as first argument and no second argument
FunctionFirst == Called /\ call.arg1.t = "function" /\ ~IsFunction(call.arg2)

\* the function is taken as callback and the parameters as empty
TakenAsCallback ==
  /\ call.callback = call.arg1.fn
  /\ call.options.body = EmptyObject
  /\ call.options.qs = EmptyObject
  /\ call.options.path = EmptyObject
  /\ call.status \in {"rejected", "done"} =>
       Len(call.completions) = 1 /\ call.completions[1].to = call.arg1.fn

\* C10 (as claimed): every operation called with a function as first
\* argument and no second argument takes the function as the completion
\* callback and the parameters as empty.
C10_EveryOperationNormalizes == FunctionFirst => TakenAsCallback

\* C10 (amended): listWorkspaces does so; every other operation takes the
\* function as its parameter mapping, and the call has no callback and
\* delivers no completion.
C10_OnlyListWorkspacesNormalizes ==
  FunctionFirst =>
    IF call.op = "listWorkspaces"
      THEN TakenAsCallback
      ELSE /\ call.params = call.arg1
           /\ call.callback = NoCallback
           /\ call.completions = <<>>

C10_Witness ==
  /\ FunctionFirst
  /\ call.op = "listWorkspaces"
  /\ call.status = "done"
  /\ call.completions = <<Completion("fn1", NoError, "raw")>>

\* the keys an operation picks for body, qs or path
AllowedAnywhere(d) == Range(d.body) \cup Range(d.qs) \cup Range(d.path)

HandedOver(c) == Merge(Merge(c.options.body, c.options.qs), c.options.path)

\* C11: every field of an operation's required list is in the union of its
\* body, qs and path lists; a required field the caller supplies is in one
\* of the mappings handed to the dispatcher with the caller's value, and a
\* call supplying every required field is dispatched, not rejected.
C11_RequiredFieldsAreAllowed ==
  /\ \A op \in Operations :
       Range(Declaration(op).requiredParams) \subseteq AllowedAnywhere(Declaration(op))
  /\ Called =>
       /\ \A r \in Range(Declarations[call.op].requiredParams) :
            HasValue(call.arg1.m, r) =>
              r \in DOMAIN HandedOver(call) /\ HandedOver(call)[r] = call.arg1.m[r]
       /\ MissingRequired(call) = {} =>
            Dispatched /\ ErrorOf(call).kind # "MissingRequiredParameter"

C11_Witness ==
  /\ call.op = "updateCounterExample"
  /\ DOMAIN call.arg1.m = {"workspace_id", "old_text", "text"}
  /\ MissingRequired(call) = {}
  /\ call.status = "inflight"
  /\ DOMAIN call.options.body = {"text"}
  /\ DOMAIN call.options.path = {"workspace_id", "old_text"}

\* C12 (as claimed): every operation's options mark it as JSON-returning,
\* and the completion of a call the transport answered with a success is
\* the decoded response.
C12_EveryOperationReturnsJson ==
  /\ Called => call.options.json
  /\ (call.status = "done" /\ call.completions # <<>>
        /\ call.completions[1].err = NoError) =>
       call.completions[1].data = "decoded"

\* C14 (as claimed): the default query of a constructed service has a
\* defined 'version' entry equal to the version_date of its configuration.
C14_QsVersionIsConfiguredVersion ==
  service.constructed =>
    /\ "version" \in DOMAIN service._options.qs
    /\ IsDefined(service._options.qs.version)
    /\ service._options.qs.version = service._options.version_date

\* C13: no step after construction changes the service configuration; no
\* step of a call changes the caller's parameter mapping, the mappings
\* built for the call or its request; a new call's mappings and request are
\* built from its own parameters and the configuration alone; and no step
\* of another call changes the request of a call still in flight.
C13_CallsChangeNothingShared ==
  [][/\ service.constructed => service' = service
     /\ (call.op # "none" /\ call'.op # "none") =>
          /\ call'.arg1 = call.arg1
          /\ call'.params = call.params
          /\ call'.options = call.options
          /\ call'.request = call.request
     /\ (call.op = "none" /\ call'.op # "none") =>
          /\ call'.options = Options(call'.op, call'.params)
          /\ call'.status = "inflight" =>
               call'.request = BuildRequest(call'.options, service._options)
     /\ (parked.op # "none" /\ parked'.op # "none") => parked' = parked
     /\ (parked.op = "none" /\ parked'.op # "none") => parked' = call
    ]_vars

C13_Witness ==
  /\ parked.op = "message"
  /\ parked.status = "inflight"
  /\ call.op = "listWorkspaces"
  /\ call.status = "inflight"
  /\ "page_limit" \in DOMAIN call.request.qs
  /\ "input" \in DOMAIN parked.request.body
  /\ DOMAIN parked.request.qs = {"version"}

====
